---- MODULE Spec2Model ----
(***************************************************************************)
(* Axon: the analysis endpoint (src/app/api/analyze-design/route.ts, POST) *)
(* as a state machine.  One request at a time is followed from its arrival *)
(* to its response; the outbound provider call is the one suspend point.   *)
(*                                                                         *)
(* JavaScript strings are TLA+ strings (TLC treats them as sequences of    *)
(* one-character strings); every other JavaScript value is a tagged record.*)
(***************************************************************************)
EXTENDS Integers, Sequences, FiniteSets, Bags, TLC

(***************************************************************************)
(* Bounds of the explored inputs.                                          *)
(***************************************************************************)
\* longest base64 payload of a request's data URL
MaxPayloadLen == 2
\* longest run of free prose characters put around a JSON object text
MaxProseLen == 1
\* most FileReader reads under way at once
MaxReads == 1
\* most analysis requests the network holds at once
MaxInFlight == 2
\* most clipboard writes and setTimeout callbacks under way at once
MaxCallbacks == 1

(***************************************************************************)
(* JavaScript values.                                                      *)
(***************************************************************************)
Undefined == [type |-> "undefined"]
JSNull == [type |-> "null"]
JSBool(b) == [type |-> "boolean", bool |-> b]
JSNum(n) == [type |-> "number", num |-> n]
JSStr(s) == [type |-> "string", str |-> s]
JSArr(items) == [type |-> "array", items |-> items]
\* members: a sequence of [k |-> key string, v |-> value], in insertion order
JSObj(members) == [type |-> "object", members |-> members]
Member(k, v) == [k |-> k, v |-> v]

\* ToBoolean: what `!x` and `x || y` test
Truthy(v) ==
  CASE v.type = "undefined" -> FALSE
    [] v.type = "null" -> FALSE
    [] v.type = "boolean" -> v.bool
    [] v.type = "number" -> v.num # 0
    [] v.type = "string" -> v.str # ""
    [] OTHER -> TRUE

\* a property read `v.key` throws a TypeError exactly on null and undefined
ReadThrows(v) == v.type \in {"undefined", "null"}

MinOf(S) == CHOOSE i \in S : \A j \in S : i <= j
MaxOf(S) == CHOOSE i \in S : \A j \in S : j <= i

\* `v.key` for the keys the handler reads (none of them is a built-in
\* property of strings, numbers, booleans or arrays); the last member of
\* that name wins, as JSON.parse keeps the last duplicate
MemberIndexes(members, key) == {i \in 1..Len(members) : members[i].k = key}
MemberAt(members, idx) == IF idx = {} THEN Undefined ELSE members[MaxOf(idx)].v
GetProp(v, key) ==
  IF v.type # "object" THEN Undefined
  ELSE MemberAt(v.members, MemberIndexes(v.members, key))

\* `v?.[0]`
Index0(v) ==
  CASE v.type = "array" -> IF Len(v.items) > 0 THEN v.items[1] ELSE Undefined
    [] v.type = "string" -> IF Len(v.str) > 0 THEN JSStr(SubSeq(v.str, 1, 1)) ELSE Undefined
    [] OTHER -> Undefined

\* a || b
OrElse(a, b) == IF Truthy(a) THEN a ELSE b

(***************************************************************************)
(* String methods.                                                         *)
(***************************************************************************)
Char(s, i) == SubSeq(s, i, i)

Whitespace == {" ", "\n", "\t", "\r"}

\* String.prototype.startsWith / endsWith
StartsWith(s, p) == Len(s) >= Len(p) /\ SubSeq(s, 1, Len(p)) = p
EndsWith(s, p) == Len(s) >= Len(p) /\ SubSeq(s, Len(s) - Len(p) + 1, Len(s)) = p

\* s.slice(n), 0 <= n
SliceFrom(s, n) == IF n >= Len(s) THEN "" ELSE SubSeq(s, n + 1, Len(s))
\* s.slice(0, -n), 0 < n
SliceDropLast(s, n) == IF n >= Len(s) THEN "" ELSE SubSeq(s, 1, Len(s) - n)

\* the first index at or after i, and the last index at or before i, that
\* holds no whitespace (Len(s) + 1 and 0 when there is none)
RECURSIVE SkipWs(_, _)
SkipWs(s, i) ==
  IF i <= Len(s) /\ Char(s, i) \in Whitespace THEN SkipWs(s, i + 1) ELSE i
RECURSIVE SkipWsBack(_, _)
SkipWsBack(s, i) ==
  IF i >= 1 /\ Char(s, i) \in Whitespace THEN SkipWsBack(s, i - 1) ELSE i

\* String.prototype.trim
TrimBetween(s, lo, hi) == IF lo > hi THEN "" ELSE SubSeq(s, lo, hi)
Trim(s) == TrimBetween(s, SkipWs(s, 1), SkipWsBack(s, Len(s)))

\* positions of character c in s
Positions(s, c) == {i \in 1..Len(s) : Char(s, i) = c}

(***************************************************************************)
(* JSON.parse.  A recursive-descent parser of JSON text: objects, arrays,  *)
(* strings with the escapes \" \\ \/ \n \t \r, integers, true, false,      *)
(* null, whitespace between tokens.  (Fractions, exponents and \b \f \u    *)
(* escapes are not read; no text of the explored inputs uses them.)        *)
(* A parse step returns [ok, val, pos]: pos is the index after the value.  *)
(***************************************************************************)
ParseFail == [ok |-> FALSE, val |-> Undefined, pos |-> 0]
ParseOk(v, p) == [ok |-> TRUE, val |-> v, pos |-> p]

Digits == {"0", "1", "2", "3", "4", "5", "6", "7", "8", "9"}
DigitVal(c) ==
  CASE c = "0" -> 0 [] c = "1" -> 1 [] c = "2" -> 2 [] c = "3" -> 3 [] c = "4" -> 4
    [] c = "5" -> 5 [] c = "6" -> 6 [] c = "7" -> 7 [] c = "8" -> 8 [] c = "9" -> 9

\* the number of consecutive backslashes of s that end just before index i,
\* counted back no further than index lo
RECURSIVE BackslashRun(_, _, _)
BackslashRun(s, lo, i) ==
  IF i > lo /\ Char(s, i - 1) = "\\" THEN 1 + BackslashRun(s, lo, i - 1) ELSE 0

\* index i of s is escaped: an odd number of backslashes precedes it
Escaped(s, lo, i) == BackslashRun(s, lo, i) % 2 = 1

\* what the character c at an index of a string literal contributes to the
\* string's value, escaped or not
UnescapeChar(c, escaped) ==
  IF escaped
    THEN CASE c = "n" -> "\n" [] c = "t" -> "\t" [] c = "r" -> "\r" [] OTHER -> c
    ELSE IF c = "\\" THEN "" ELSE c

\* the value of the characters lo..hi of a string literal that starts at from
RECURSIVE UnescapeRange(_, _, _, _)
UnescapeRange(s, from, lo, hi) ==
  IF lo > hi THEN ""
  ELSE IF lo = hi THEN UnescapeChar(Char(s, lo), Escaped(s, from, lo))
  ELSE UnescapeRange(s, from, lo, (lo + hi) \div 2)
         \o UnescapeRange(s, from, ((lo + hi) \div 2) + 1, hi)

\* the index of the first unescaped quote at or after j, 0 when there is none
RECURSIVE QuoteWithin(_, _, _, _)
OrElseQuoteWithin(found, s, from, lo, hi) ==
  IF found # 0 THEN found ELSE QuoteWithin(s, from, lo, hi)
QuoteWithin(s, from, lo, hi) ==
  IF lo > hi THEN 0
  ELSE IF lo = hi
    THEN IF Char(s, lo) = "\"" /\ ~Escaped(s, from, lo) THEN lo ELSE 0
  ELSE OrElseQuoteWithin(QuoteWithin(s, from, lo, (lo + hi) \div 2),
                         s, from, ((lo + hi) \div 2) + 1, hi)
ClosingQuote(s, j) == QuoteWithin(s, j, j, Len(s))

\* a string literal whose characters are at j..close-1: an escape other than
\* \" \\ \/ \n \t \r or a raw control character is a syntax error
StringLiteral(s, j, close) ==
  IF close = 0 THEN ParseFail
  ELSE IF \E i \in j..(close - 1) :
            \/ Char(s, i) \in {"\n", "\t", "\r"}
            \/ Escaped(s, j, i) /\ Char(s, i) \notin {"\"", "\\", "/", "n", "t", "r"}
    THEN ParseFail
  ELSE ParseOk(JSStr(UnescapeRange(s, j, j, close - 1)), close + 1)

\* a string literal whose first character (after the opening quote) is at j
ParseStringChars(s, j) == StringLiteral(s, j, ClosingQuote(s, j))

\* the digits of an integer from index j on
RECURSIVE ParseDigits(_, _, _)
ParseDigits(s, j, acc) ==
  IF j <= Len(s) /\ Char(s, j) \in Digits
    THEN ParseDigits(s, j + 1, 10 * acc + DigitVal(Char(s, j)))
    ELSE ParseOk(JSNum(acc), j)

\* an integer whose first digit is expected at index d
ParseNatural(s, d) ==
  IF d > Len(s) \/ Char(s, d) \notin Digits THEN ParseFail
  ELSE IF Char(s, d) = "0" THEN ParseOk(JSNum(0), d + 1)
  ELSE ParseDigits(s, d, 0)
Negated(r) == IF r.ok THEN ParseOk(JSNum(0 - r.val.num), r.pos) ELSE r

\* an integer starting at index i (a digit or a minus sign)
ParseNumber(s, i) ==
  IF Char(s, i) = "-" THEN Negated(ParseNatural(s, i + 1)) ELSE ParseNatural(s, i)

ParseLiteral(s, i, word, v) ==
  IF i + Len(word) - 1 <= Len(s) /\ SubSeq(s, i, i + Len(word) - 1) = word
    THEN ParseOk(v, i + Len(word))
    ELSE ParseFail

RECURSIVE ParseValue(_, _)
RECURSIVE ParseElements(_, _, _)
RECURSIVE ParseMembers(_, _, _)

\* after an array element: at index j a comma or the closing bracket
ElementsNext(s, j, items) ==
  IF j > Len(s) THEN ParseFail
  ELSE IF Char(s, j) = "," THEN ParseElements(s, j + 1, items)
  ELSE IF Char(s, j) = "]" THEN ParseOk(JSArr(items), j + 1)
  ELSE ParseFail
ElementsAfter(s, e, acc) ==
  IF ~e.ok THEN ParseFail ELSE ElementsNext(s, SkipWs(s, e.pos), Append(acc, e.val))
\* array elements from index i (the start of an element) on
ParseElements(s, i, acc) == ElementsAfter(s, ParseValue(s, i), acc)

\* after an object member: at index j a comma or the closing brace
MembersNext(s, j, members) ==
  IF j > Len(s) THEN ParseFail
  ELSE IF Char(s, j) = "," THEN ParseMembers(s, SkipWs(s, j + 1), members)
  ELSE IF Char(s, j) = "}" THEN ParseOk(JSObj(members), j + 1)
  ELSE ParseFail
MemberAfterValue(s, key, e, acc) ==
  IF ~e.ok THEN ParseFail
  ELSE MembersNext(s, SkipWs(s, e.pos), Append(acc, Member(key, e.val)))
MemberAfterColon(s, key, c, acc) ==
  IF c > Len(s) \/ Char(s, c) # ":" THEN ParseFail
  ELSE MemberAfterValue(s, key, ParseValue(s, c + 1), acc)
MemberAfterKey(s, key, acc) ==
  IF ~key.ok THEN ParseFail
  ELSE MemberAfterColon(s, key.val.str, SkipWs(s, key.pos), acc)
\* object members from index i (after whitespace: the key's opening quote) on
ParseMembers(s, i, acc) ==
  IF i > Len(s) \/ Char(s, i) # "\"" THEN ParseFail
  ELSE MemberAfterKey(s, ParseStringChars(s, i + 1), acc)

\* an object or array whose opening bracket came just before index k
ObjectFrom(s, k) ==
  IF k <= Len(s) /\ Char(s, k) = "}" THEN ParseOk(JSObj(<<>>), k + 1)
  ELSE ParseMembers(s, k, <<>>)
ArrayFrom(s, k) ==
  IF k <= Len(s) /\ Char(s, k) = "]" THEN ParseOk(JSArr(<<>>), k + 1)
  ELSE ParseElements(s, k, <<>>)

\* a JSON value starting at index j (no whitespace)
ValueAt(s, j, c) ==
  CASE c = "{" -> ObjectFrom(s, SkipWs(s, j + 1))
    [] c = "[" -> ArrayFrom(s, SkipWs(s, j + 1))
    [] c = "\"" -> ParseStringChars(s, j + 1)
    [] c = "t" -> ParseLiteral(s, j, "true", JSBool(TRUE))
    [] c = "f" -> ParseLiteral(s, j, "false", JSBool(FALSE))
    [] c = "n" -> ParseLiteral(s, j, "null", JSNull)
    [] c = "-" \/ c \in Digits -> ParseNumber(s, j)
    [] OTHER -> ParseFail
ValueFrom(s, j) == IF j > Len(s) THEN ParseFail ELSE ValueAt(s, j, Char(s, j))
\* a JSON value starting at or after index i
ParseValue(s, i) == ValueFrom(s, SkipWs(s, i))

\* JSON.parse(text): [ok, val]; ok = FALSE is the SyntaxError it throws
WholeText(text, r) ==
  IF r.ok /\ SkipWs(text, r.pos) > Len(text)
    THEN [ok |-> TRUE, val |-> r.val]
    ELSE [ok |-> FALSE, val |-> Undefined]
JSONParse(text) == WholeText(text, ParseValue(text, 1))

(***************************************************************************)
(* JSON.stringify (no indentation), as the client and the provider use it  *)
(* to put a value on the wire.                                             *)
(***************************************************************************)
QuoteChar(c) ==
  CASE c = "\"" -> "\\\""
    [] c = "\\" -> "\\\\"
    [] c = "\n" -> "\\n"
    [] c = "\t" -> "\\t"
    [] c = "\r" -> "\\r"
    [] OTHER -> c

\* the characters of s, each escaped as a string literal needs it
RECURSIVE Quote(_)
Quote(s) ==
  IF s = "" THEN ""
  ELSE IF Len(s) = 1 THEN QuoteChar(s)
  ELSE Quote(SubSeq(s, 1, Len(s) \div 2)) \o Quote(SubSeq(s, (Len(s) \div 2) + 1, Len(s)))

RECURSIVE NatText(_)
DigitText(d) == SubSeq("0123456789", d + 1, d + 1)
NatText(n) == IF n < 10 THEN DigitText(n) ELSE NatText(n \div 10) \o DigitText(n % 10)

RECURSIVE Stringify(_)
RECURSIVE StringifyItems(_, _)
RECURSIVE StringifyMembers(_, _)
StringifyItems(items, i) ==
  IF i > Len(items) THEN ""
  ELSE (IF i > 1 THEN "," ELSE "") \o Stringify(items[i]) \o StringifyItems(items, i + 1)
StringifyMembers(members, i) ==
  IF i > Len(members) THEN ""
  ELSE (IF i > 1 THEN "," ELSE "") \o "\"" \o Quote(members[i].k) \o "\":"
         \o Stringify(members[i].v) \o StringifyMembers(members, i + 1)
Stringify(v) ==
  CASE v.type = "null" -> "null"
    [] v.type = "boolean" -> IF v.bool THEN "true" ELSE "false"
    [] v.type = "number" -> IF v.num < 0 THEN "-" \o NatText(0 - v.num) ELSE NatText(v.num)
    [] v.type = "string" -> "\"" \o Quote(v.str) \o "\""
    [] v.type = "array" -> "[" \o StringifyItems(v.items, 1) \o "]"
    [] v.type = "object" -> "{" \o StringifyMembers(v.members, 1) \o "}"

(***************************************************************************)
(* The handler's responses.  A response is [status, error, tokens, prompt]:*)
(* an error response carries its message and no result, the 200 response   *)
(* carries the result and no message.                                      *)
(***************************************************************************)
MsgNoImage == "No image provided. Please upload an image."
MsgInvalidFormat == "Invalid image format. Please upload a valid image file."
MsgNoKey == "API key not configured. Please set PERPLEXITY_API_KEY in your environment."
MsgInvalidData == "Invalid image data format."
MsgUnsupported == "Unsupported image format. Please use PNG, JPEG, WEBP, or GIF."
MsgInvalidKey == "Invalid API key. Please check your PERPLEXITY_API_KEY."
MsgRateLimit == "Rate limit exceeded. Please try again in a moment."
MsgBadRequest == "Invalid request. The image may be too large (max 50MB) or in an unsupported format."
MsgFailed == "Failed to analyze design. Please try again."
MsgNoAnalysis == "No analysis received from AI. Please try again."
MsgParse == "Failed to parse AI response. The model returned invalid JSON. Please try again."
MsgMissing == "AI response missing required fields. Please try again."
MsgUnexpected == "An unexpected error occurred. Please try again."

ErrorResponse(status, msg) ==
  [status |-> status, error |-> msg, tokens |-> Undefined, prompt |-> Undefined]
SuccessResponse(tokens, prompt) ==
  [status |-> 200, error |-> "", tokens |-> tokens, prompt |-> prompt]
\* C12 mutant: no outer catch, a fault leaves the handler without a response
Unexpected_Raw == [status |-> 0, error |-> "", tokens |-> Undefined, prompt |-> Undefined]
\* the outer catch: any fault thrown while handling
Unexpected == ErrorResponse(500, MsgUnexpected)
NoResponse == [status |-> 0, error |-> "", tokens |-> Undefined, prompt |-> Undefined]

(***************************************************************************)
(* Request validation: the handler up to the outbound call.                *)
(***************************************************************************)
SupportedFormats == {"image/png", "image/jpeg", "image/jpg", "image/webp", "image/gif"}

\* imageBase64.match(/^data:(image\/[^;]+);base64,(.+)$/): [ok, mime].
\* [^;]+ runs from after "data:" + "image/" to the first ";" and may not be
\* empty; "." matches no line terminator, so the payload is one line.
NoMatch == [ok |-> FALSE, mime |-> ""]
OneLine(payload) ==
  payload # "" /\ \A i \in 1..Len(payload) : Char(payload, i) \notin {"\n", "\r"}
MatchUpTo(s, semis) ==
  IF /\ semis # {}
     /\ MinOf(semis) > 12
     /\ StartsWith(SliceFrom(s, MinOf(semis) - 1), ";base64,")
     /\ OneLine(SliceFrom(s, MinOf(semis) + 7))
    THEN [ok |-> TRUE, mime |-> SubSeq(s, 6, MinOf(semis) - 1)]
    ELSE NoMatch
DataUrlMatch(s) ==
  IF StartsWith(s, "data:image/")
    THEN MatchUpTo(s, {i \in Positions(s, ";") : i > 11})
    ELSE NoMatch

\* C4 mutant: the credential check left out
CredentialConfigured_Skipped(key) == TRUE

\* `!apiKey` is false: process.env.PERPLEXITY_API_KEY is a non-empty string
CredentialConfigured(key) == Truthy(key)

\* What POST does with the request body text under the environment's key,
\* up to the outbound call: [fetch, response].  fetch = TRUE: every check
\* passed and the provider is called; otherwise `response` is returned.
Respond(r) == [fetch |-> FALSE, response |-> r]
CallProvider == [fetch |-> TRUE, response |-> NoResponse]

\* the allow-list check on the envelope's match
ValidateFormat(matches) ==
  IF ~matches.ok THEN Respond(ErrorResponse(400, MsgInvalidData))
  ELSE IF matches.mime \notin SupportedFormats
    THEN Respond(ErrorResponse(400, MsgUnsupported))
  ELSE CallProvider

\* the checks on the imageBase64 value, in the order the code makes them;
\* startsWith on a value that is no string throws a TypeError
ValidateImage(imageBase64, key) ==
  IF ~Truthy(imageBase64) THEN Respond(ErrorResponse(400, MsgNoImage))
  ELSE IF imageBase64.type # "string" THEN Respond(Unexpected)
  ELSE IF ~StartsWith(imageBase64.str, "data:image/")
    THEN Respond(ErrorResponse(400, MsgInvalidFormat))
  ELSE IF ~CredentialConfigured(key) THEN Respond(ErrorResponse(500, MsgNoKey))
  ELSE ValidateFormat(DataUrlMatch(imageBase64.str))

\* request.json() throws on a text that is no JSON; destructuring
\* `{ imageBase64 } = body` throws on null
ValidateBody(parsed, key) ==
  IF ~parsed.ok THEN Respond(Unexpected)
  ELSE IF ReadThrows(parsed.val) THEN Respond(Unexpected)
  ELSE ValidateImage(GetProp(parsed.val, "imageBase64"), key)

ValidateRequest(text, key) == ValidateBody(JSONParse(text), key)

(***************************************************************************)
(* The provider's reply: the handler after the outbound call.              *)
(***************************************************************************)
\* The code-fence character.  SANY's lexer admits no U+0060 inside a
\* string literal, so the model writes the fence character as "~"; like
\* U+0060 it is no whitespace and has no meaning in JSON outside a string.
Tick == "~"
Fence == Tick \o Tick \o Tick

\* Response.ok
StatusOk(status) == status >= 200 /\ status <= 299

\* C5 mutant: the rate-limit branch left out
ProviderError_NoRateLimit(status) ==
  IF status = 401 THEN ErrorResponse(401, MsgInvalidKey)
  ELSE IF status = 400 THEN ErrorResponse(400, MsgBadRequest)
  ELSE ErrorResponse(500, MsgFailed)

\* the classification of a non-success provider response
ProviderError(status) ==
  IF status = 401 THEN ErrorResponse(401, MsgInvalidKey)
  ELSE IF status = 429 THEN ErrorResponse(429, MsgRateLimit)
  ELSE IF status = 400 THEN ErrorResponse(400, MsgBadRequest)
  ELSE ErrorResponse(500, MsgFailed)

\* v?.key
OptProp(v, key) == IF ReadThrows(v) THEN Undefined ELSE GetProp(v, key)
\* v?.[0]
OptIndex0(v) == IF ReadThrows(v) THEN Undefined ELSE Index0(v)
\* perplexityData.choices?.[0]?.message?.content (perplexityData not null)
ReplyContent(data) ==
  OptProp(OptProp(OptIndex0(GetProp(data, "choices")), "message"), "content")

\* the leading fence removed: with the json tag, else without one
StripLeadingFence(s) ==
  IF StartsWith(s, Fence \o "json") THEN SliceFrom(s, 7)
  ELSE IF StartsWith(s, Fence) THEN SliceFrom(s, 3)
  ELSE s

\* C6 mutant: the trailing fence cut one character too long
StripTrailingFence_OffByOne(s) ==
  IF EndsWith(s, Fence) THEN SliceDropLast(s, 4) ELSE s

\* the trailing fence removed
StripTrailingFence(s) ==
  IF EndsWith(s, Fence) THEN SliceDropLast(s, 3) ELSE s

\* C7 mutant: a lazy quantifier, the span ends at the first "}" after the
\* first "{"
LazySpanOrSelf(s, opens, closes) ==
  IF opens # {} /\ closes # {} /\ MinOf(opens) < MaxOf(closes)
    THEN SubSeq(s, MinOf(opens), MinOf({i \in closes : i > MinOf(opens)}))
    ELSE s
ExtractJson_Lazy(s) == LazySpanOrSelf(s, Positions(s, "{"), Positions(s, "}"))

\* cleanContent.match(/\{[\s\S]*\}/): the span from the first "{" to the
\* last "}" of the text when there is one, else the text as it is
SpanOrSelf(s, opens, closes) ==
  IF opens # {} /\ closes # {} /\ MinOf(opens) < MaxOf(closes)
    THEN SubSeq(s, MinOf(opens), MaxOf(closes))
    ELSE s
ExtractJson(s) == SpanOrSelf(s, Positions(s, "{"), Positions(s, "}"))

\* the text handed to JSON.parse
CleanContent(content) ==
  ExtractJson(Trim(StripTrailingFence(StripLeadingFence(Trim(content)))))

DefaultTypography ==
  JSObj(<< Member("headings", JSStr("Sans-serif, semi-bold")),
           Member("body", JSStr("Sans-serif, regular")),
           Member("weights", JSArr(<<JSStr("400"), JSStr("600")>>)) >>)
DefaultSpacing ==
  JSArr(<<JSStr("4px"), JSStr("8px"), JSStr("16px"), JSStr("24px"), JSStr("32px")>>)
DefaultRadius == JSArr(<<JSStr("4px"), JSStr("8px"), JSStr("12px")>>)

\* the default of each token field
TokenDefault(field) ==
  CASE field = "colors" -> JSArr(<<>>)
    [] field = "typography" -> DefaultTypography
    [] field = "spacing" -> DefaultSpacing
    [] field = "animations" -> JSArr(<<>>)
    [] field = "elevation" -> JSArr(<<>>)
    [] field = "radius" -> DefaultRadius

TokenFields == <<"colors", "typography", "spacing", "animations", "elevation", "radius">>

\* C9 mutant: `??` for `||`, the default only for a missing or null field
NormalizeField_Nullish(tokens, field) ==
  IF GetProp(tokens, field).type \in {"undefined", "null"} THEN TokenDefault(field)
  ELSE GetProp(tokens, field)

\* one field of the returned tokens: analysisResult.tokens.f || default
NormalizeField(tokens, field) == OrElse(GetProp(tokens, field), TokenDefault(field))

\* the returned tokens object, its six fields in the order the code writes them
NormalizeTokens(tokens) ==
  JSObj([i \in 1..Len(TokenFields) |->
           Member(TokenFields[i], NormalizeField(tokens, TokenFields[i]))])

\* the structural check: both fields truthy
HasRequiredFields(result) ==
  Truthy(GetProp(result, "tokens")) /\ Truthy(GetProp(result, "prompt"))

\* the structural check passed or not: the 200 response or the 500
HandleResult(analysisResult) ==
  IF ~HasRequiredFields(analysisResult) THEN ErrorResponse(500, MsgMissing)
  ELSE SuccessResponse(NormalizeTokens(GetProp(analysisResult, "tokens")),
                       GetProp(analysisResult, "prompt"))

\* JSON.parse threw (the inner catch), or `analysisResult.tokens` throws on
\* null (the outer catch), or there is a value to check
HandleParsed(parsed) ==
  IF ~parsed.ok THEN ErrorResponse(500, MsgParse)
  ELSE IF ReadThrows(parsed.val) THEN Unexpected
  ELSE HandleResult(parsed.val)

\* no content; content.trim() throws inside the inner try on a content that
\* is no string; else the cleaned content is parsed
HandleContent(content) ==
  IF ~Truthy(content) THEN ErrorResponse(500, MsgNoAnalysis)
  ELSE IF content.type # "string" THEN ErrorResponse(500, MsgParse)
  ELSE HandleParsed(JSONParse(CleanContent(content.str)))

\* What POST does with a success response: json is what
\* perplexityResponse.json() gives, [ok, val]; ok = FALSE: it throws.
HandleReply(json) ==
  IF ~json.ok THEN Unexpected
  ELSE IF ReadThrows(json.val) THEN Unexpected
  ELSE HandleContent(ReplyContent(json.val))

\* What POST does with the outcome of the outbound call: the fetch throws
\* (kind "throw"), or a response with a status and a body arrives.
HandleOutcome(outcome) ==
  IF outcome.kind = "throw" THEN Unexpected
  ELSE IF ~StatusOk(outcome.status) THEN ProviderError(outcome.status)
  ELSE HandleReply(outcome.json)

(***************************************************************************)
(* The explored inputs: request bodies, environments, provider outcomes.   *)
(***************************************************************************)
\* all strings over the characters `chars` of length at most n
RECURSIVE StringsUpTo(_, _)
StringsUpTo(chars, n) ==
  IF n = 0 THEN {""}
  ELSE LET shorter == StringsUpTo(chars, n - 1)
       IN shorter \cup {s \o c : s \in shorter, c \in chars}

\* process.env.PERPLEXITY_API_KEY: unset, set to the empty string, set
ApiKeys == {Undefined, JSStr(""), JSStr("pplx-key")}

Payloads == StringsUpTo({"A"}, MaxPayloadLen)
OtherMimes == {"image/bmp", "image/svg+xml", "image/PNG", "application/pdf", "text/plain"}
DataUrl(mime, payload) == "data:" \o mime \o ";base64," \o payload

\* well-formed data URLs of every MIME type, and strings that are none
DataUrls ==
  {DataUrl("image/png", pl) : pl \in Payloads}
    \cup {DataUrl(m, "AA") : m \in SupportedFormats \cup OtherMimes}
OtherStrings ==
  { "data:image/png", "data:image/png;base64", "data:image/png,AA",
    "image/png;base64,AA", "data:image/;base64,AA", "data:image/bmp",
    "data:image/png;charset=utf-8;base64,AA", "data:image/png;base64,A\nA",
    "data:text/html,<b>", "hello" }

\* the values of the body's imageBase64 field
ImageValues ==
  {JSStr(u) : u \in DataUrls \cup OtherStrings}
    \cup { JSNull, JSStr(""), JSNum(0), JSBool(FALSE), JSNum(42), JSBool(TRUE),
           JSObj(<<>>), JSArr(<<JSStr(DataUrl("image/png", "AA"))>>) }

\* request body texts: objects with the field, objects without it, JSON
\* texts that are no object, and texts that are no JSON
BodiesWithoutField ==
  { "{}", "{\"image\":\"data:image/png;base64,AA\"}", "[]", "42",
    "\"data:image/png;base64,AA\"", "null" }
RequestBodies ==
  {Stringify(JSObj(<<Member("imageBase64", v)>>)) : v \in ImageValues}
    \cup BodiesWithoutField \cup {"", "{\"imageBase64\":"}

\* the provider's success body around a message content, as its json()
\* gives it
Json(v) == [ok |-> TRUE, val |-> v]
NotJson == [ok |-> FALSE, val |-> Undefined]
ReplyBody(content) ==
  Json(JSObj(<<Member("choices",
     JSArr(<<JSObj(<<Member("message",
        JSObj(<<Member("role", JSStr("assistant")), Member("content", content)>>))>>)>>))>>))

ProperTypography ==
  JSObj(<< Member("headings", JSStr("Inter, bold")), Member("body", JSStr("Inter")),
           Member("weights", JSArr(<<JSStr("700")>>)) >>)
ProperTokens ==
  << Member("colors", JSArr(<<JSObj(<<Member("name", JSStr("Red")),
                                       Member("hex", JSStr("#FF0000"))>>)>>)),
     Member("typography", ProperTypography),
     Member("spacing", JSArr(<<JSStr("2px")>>)),
     Member("animations", JSArr(<<JSStr("fade 150ms")>>)),
     Member("elevation", JSArr(<<JSStr("0 4px 12px")>>)),
     Member("radius", JSArr(<<JSStr("6px")>>)) >>

\* a reply's tokens with some fields of their type, some falsy, some missing
MixedTokens ==
  << Member("colors", JSArr(<<JSObj(<<Member("name", JSStr("Red")),
                                       Member("hex", JSStr("#FF0000"))>>)>>)),
     Member("typography", JSNull),
     Member("animations", JSArr(<<>>)),
     Member("radius", JSNum(0)) >>

\* members with field f set to v / without field f
WithoutField(members, f) == SelectSeq(members, LAMBDA m : m.k # f)
WithField(members, f, v) == Append(WithoutField(members, f), Member(f, v))

\* what a reply may put in a token field: falsy values, values of the right
\* type, truthy values of another type
FieldValues ==
  { JSNull, JSNum(0), JSStr(""), JSBool(FALSE),
    JSArr(<<>>), JSArr(<<JSStr("8px")>>), ProperTypography,
    JSStr("red"), JSNum(5), JSBool(TRUE), JSObj(<<>>),
    JSObj(<<Member("headings", JSStr("Inter"))>>), JSArr(<<JSNum(8)>>) }
TokenFieldSet == {TokenFields[i] : i \in 1..Len(TokenFields)}
TokensObjects ==
  {JSObj(WithField(base, f, v)) : base \in {<<>>, ProperTokens}, f \in TokenFieldSet, v \in FieldValues}
    \cup {JSObj(WithoutField(base, f)) : base \in {<<>>, ProperTokens}, f \in TokenFieldSet}
    \cup {JSObj(ProperTokens), JSObj(MixedTokens)}
TokensValues ==
  TokensObjects \cup { JSNull, JSNum(0), JSNum(5), JSStr(""), JSStr("x"),
                       JSBool(TRUE), JSBool(FALSE), JSArr(<<>>) }
PromptValues ==
  { JSStr("Use a red background..."), JSStr(""), JSNum(0), JSNum(7), JSNull,
    JSBool(TRUE), JSObj(<<>>), JSArr(<<>>) }

\* the JSON values a reply's content may spell
ReplyValues ==
  {JSObj(<<Member("tokens", tk), Member("prompt", JSStr("Use a red background..."))>>) :
      tk \in TokensValues}
    \cup {JSObj(<<Member("tokens", tk), Member("prompt", pr)>>) :
            tk \in {JSObj(<<>>), JSObj(ProperTokens), JSStr("x")}, pr \in PromptValues}
    \cup { JSObj(<<Member("prompt", JSStr("p"))>>), JSObj(<<Member("tokens", JSObj(<<>>))>>),
           JSObj(<<>>) }

\* JSON object texts to be wrapped in fences and prose: compact, spaced,
\* with braces and fence characters inside a string, without a required key
JsonTexts ==
  { "{\"tokens\":{},\"prompt\":\"p\"}",
    Stringify(JSObj(<<Member("tokens", JSObj(ProperTokens)), Member("prompt", JSStr("Use {red} ~~~ }now{"))>>)),
    " {\n \"tokens\" : { \"colors\" : [ ] } ,\n \"prompt\" : \"p q\"\n}\n",
    "{\"prompt\":\"p\"}",
    "{}" }

LeadingFences ==
  { Fence \o "json\n", Fence \o "json", Fence \o "\n", Fence, " " \o Fence \o "json \n" }
TrailingFences == { "\n" \o Fence, Fence, "\n" \o Fence \o "\n", " " \o Fence \o " " }

ProseChars == {"x", "{", "}"}
Prose ==
  StringsUpTo(ProseChars, MaxProseLen)
    \cup { "Here is the JSON: ", " Hope this helps!", Fence \o "json\n", "\n" \o Fence,
           "Result {draft}: ", " (see {x})", Fence \o "js", Tick \o Tick }

\* contents that are no JSON object text, or no string at all
OtherContents ==
  { JSStr("null"), JSStr("5"), JSStr("[1]"), JSStr("\"text\""), JSStr("I cannot help."),
    JSStr("   "), JSStr(""), JSStr(Fence), JSStr(Fence \o "json" \o Fence),
    JSStr("{\"tokens\":{},"), JSNum(5), JSNum(0), JSNull, JSBool(TRUE),
    JSObj(<<Member("tokens", JSObj(<<>>)), Member("prompt", JSStr("p"))>>) }
OtherBodies ==
  {ReplyBody(c) : c \in OtherContents}
    \cup { NotJson, Json(JSNull), Json(JSObj(<<>>)), Json(JSNum(5)),
           Json(JSObj(<<Member("choices", JSArr(<<>>))>>)),
           Json(JSObj(<<Member("choices", JSNull)>>)),
           Json(JSObj(<<Member("choices", JSStr("abc"))>>)),
           Json(JSObj(<<Member("choices", JSArr(<<JSObj(<<>>)>>))>>)),
           Json(JSObj(<<Member("choices", JSArr(<<JSObj(<<Member("message", JSNull)>>)>>))>>)) }

ErrorStatuses == {400, 401, 403, 404, 429, 500, 503}
OkStatuses == {200, 201}

\* An outcome of the outbound call.  kind "throw": fetch rejects.  kind
\* "response": the status and what json() gives for the body; for a reply
\* whose content is built as lead \o inner \o trail the three parts are
\* kept beside it (shape "fenced", "prose" or "plain"), otherwise shape
\* is "other".
Outcome(kind, status, json, shape, lead, inner, trail) ==
  [kind |-> kind, status |-> status, json |-> json, shape |-> shape,
   lead |-> lead, inner |-> inner, trail |-> trail]
NoOutcome == Outcome("none", 0, NotJson, "other", "", "", "")
Wrapped(shape, lead, inner, trail) ==
  Outcome("response", 200, ReplyBody(JSStr(lead \o inner \o trail)), shape, lead, inner, trail)
PlainReply(inner) == Wrapped("plain", "", inner, "")

ProviderOutcomes ==
  {Outcome("throw", 0, NotJson, "other", "", "", "")}
    \cup {Outcome("response", s, Json(JSObj(<<Member("error", JSStr("x"))>>)), "other", "", "", "") :
            s \in ErrorStatuses}
    \cup {Outcome("response", s, b, "other", "", "", "") : s \in OkStatuses, b \in OtherBodies}
    \cup {Wrapped("fenced", l, j, tr) : l \in LeadingFences, j \in JsonTexts, tr \in TrailingFences}
    \cup {Wrapped("prose", l, j, tr) : l \in Prose, j \in JsonTexts, tr \in Prose}
    \cup {PlainReply(Stringify(v)) : v \in ReplyValues}
    \cup {PlainReply(j) : j \in JsonTexts}

(***************************************************************************)
(* The page's inputs and what its requests come back with.                 *)
(***************************************************************************)
MsgUnsupportedFile == "Please upload a supported image file (PNG, JPG, WEBP, GIF)"
MsgTooLarge == "Image must be less than 50MB"
MsgReadFailed == "Failed to read the image file"
MsgAnalyzeFallback == "Failed to analyze design"
MsgCatchFallback == "An unexpected error occurred"
MsgCopyFailed == "Failed to copy to clipboard"
\* messages the browser gives its own errors: fetch rejecting, json() on a
\* body that is no JSON, a property read on null
BrowserMessages ==
  [fetch |-> "Failed to fetch", json |-> "Unexpected token < in JSON at position 0",
   read |-> "Cannot read properties of null (reading 'error')"]

SupportedFileTypes == {"image/png", "image/jpeg", "image/webp", "image/gif"}
MaxFileSize == 50 * 1024 * 1024

\* the files a user drops or picks: [name, type, size, payload, readable];
\* readable = FALSE: the FileReader will fail on the file (it was removed
\* or may not be read)
File(name, type, size, payload, readable) ==
  [name |-> name, type |-> type, size |-> size, payload |-> payload, readable |-> readable]
Files ==
  { File("a.png", "image/png", 10, "AA", TRUE),
    File("a.png", "image/png", 10, "AA", FALSE),
    File("b.gif", "image/gif", MaxFileSize, "A", TRUE),
    File("c.bmp", "image/bmp", 10, "AA", TRUE),
    File("e.png", "image/png", MaxFileSize + 1, "AA", TRUE) }
\* e.dataTransfer.files / e.target.files: no file or one
FileLists == {<<>>} \cup {<<f>> : f \in Files}

\* what readAsDataURL makes of a file
ReadAsDataURL(file) == JSStr(DataUrl(file.type, file.payload))

\* a sequence without its i-th element
RemoveAt(seq, i) == SubSeq(seq, 1, i - 1) \o SubSeq(seq, i + 1, Len(seq))

\* The analysis request as the endpoint answers it.  The body is the one
\* analyzeDesign sends, the answer is POST's for the server's credential
\* and for the outcome o of the outbound call, if POST makes one.
RequestBody(imageBase64) == Stringify(JSObj(<<Member("imageBase64", imageBase64)>>))
AnswerAfter(v, o) == IF v.fetch THEN HandleOutcome(o) ELSE v.response
EndpointAnswer(imageBase64, key, o) ==
  AnswerAfter(ValidateRequest(RequestBody(imageBase64), key), o)

\* NextResponse.json(...) of a response of POST, as the page's fetch
\* settles with it: [kind, status, json], json what response.json() gives
ResponseValue(r) ==
  IF r.status = 200
    THEN JSObj(<<Member("tokens", r.tokens), Member("prompt", r.prompt)>>)
    ELSE JSObj(<<Member("error", JSStr(r.error))>>)
Delivered(r) ==
  [kind |-> "response", status |-> r.status, json |-> JSONParse(Stringify(ResponseValue(r)))]

\* outcomes of the outbound call explored under the page
PageProviderOutcomes ==
  { Outcome("response", 401, NotJson, "other", "", "", ""),
    PlainReply("{\"tokens\":{\"colors\":[{\"name\":\"Ink\",\"hex\":\"#112\"}]},\"prompt\":\"Build it\"}"),
    Wrapped("fenced", Fence \o "json\n", "{\"tokens\":{},\"prompt\":\"p\"}", "\n" \o Fence) }

\* the requests the page can send: the data URL of a file it accepts
PageImages ==
  {ReadAsDataURL(f) : f \in {g \in Files : g.type \in SupportedFileTypes /\ g.size <= MaxFileSize}}
PageKeys == {JSStr("pplx-key")}

\* what the page's fetch can settle with: the endpoint's answers, answers
\* made on the way to the endpoint (a proxy's error page, a JSON body
\* without `error`), and a rejection (the network is down)
Settlements(imageBase64, key) ==
  {Delivered(EndpointAnswer(imageBase64, key, o)) : o \in PageProviderOutcomes}
    \cup { [kind |-> "response", status |-> 502, json |-> Json(JSObj(<<>>))],
           [kind |-> "reject", status |-> 0, json |-> NotJson] }

\* the try block of analyzeDesign after the fetch settled: [ok, data] with
\* the value for setResult, or [ok = FALSE, message] with the message of
\* the Error thrown
Thrown(message) == [ok |-> FALSE, data |-> Undefined, message |-> message]
\* C16 mutant: the message of the response is not read
AnalysisOf_FallbackOnly(s) ==
  IF s.kind = "response" /\ s.json.ok /\ StatusOk(s.status)
    THEN [ok |-> TRUE, data |-> s.json.val, message |-> ""]
    ELSE Thrown(MsgAnalyzeFallback)
AnalysisOf(s) ==
  IF s.kind = "reject" THEN Thrown(BrowserMessages.fetch)
  ELSE IF ~s.json.ok THEN Thrown(BrowserMessages.json)
  ELSE IF StatusOk(s.status) THEN [ok |-> TRUE, data |-> s.json.val, message |-> ""]
  ELSE IF ReadThrows(s.json.val) THEN Thrown(BrowserMessages.read)
  ELSE Thrown(OrElse(GetProp(s.json.val, "error"), JSStr(MsgAnalyzeFallback)).str)

(***************************************************************************)
(* The state machine.                                                      *)
(***************************************************************************)
VARIABLES
  apiKey,      \* process.env.PERPLEXITY_API_KEY of the server process
  pc,          \* "idle": no request yet; "awaiting": the request in hand
               \* awaits the provider; "done": its response is returned
  body,        \* the text of the body of the request in hand
  fetchCalls,  \* outbound provider calls made for the request in hand
  outcome,     \* the outcome of the outbound call, once there is one
  response,    \* the response returned for the request in hand
  \* the page (src/app/page.tsx), its useState cells:
  image,       \* the loaded data URL, or null
  fileName,    \* the name of the accepted file
  isLoading,   \* an analysis is under way
  error,       \* the message of the error banner, or null
  result,      \* the analysis result shown, or null
  isDragging,  \* a drag hovers over the upload zone
  copied,      \* the "Copied!" confirmation is shown
  \* what the page has started and not yet heard back from:
  reads,       \* FileReader reads under way: the bag of their files
  requests,    \* analysis requests in flight: the imageBase64 of each
  copies,      \* clipboard writes not yet settled
  timers,      \* setTimeout callbacks not yet run
  resultFor,   \* the imageBase64 of the request `result` answers, or null
  settlements  \* for each request the page can send, what its fetch can
               \* settle with, the server's credential being what it is

serverVars == <<apiKey, pc, body, fetchCalls, outcome, response, settlements>>
pageVars == <<image, fileName, isLoading, error, result, isDragging, copied>>
pendingVars == <<reads, requests, copies, timers, resultFor>>
vars == <<serverVars, pageVars, pendingVars>>

\* the page as first rendered
PageInit ==
  /\ image = JSNull /\ fileName = "" /\ isLoading = FALSE /\ error = JSNull
  /\ result = JSNull /\ isDragging = FALSE /\ copied = FALSE
  /\ reads = EmptyBag /\ requests = <<>> /\ copies = 0 /\ timers = 0
  /\ resultFor = JSNull

Init ==
  /\ apiKey \in ApiKeys
  /\ pc = "idle"
  /\ body = ""
  /\ fetchCalls = 0
  /\ outcome = NoOutcome
  /\ response = NoResponse
  /\ PageInit
  /\ settlements = [imageBase64 \in PageImages |-> Settlements(imageBase64, apiKey)]

\* POST from the arrival of a request to its first return or to the await
\* of the outbound call.
Begin(text, v) ==
  /\ body' = text
  /\ outcome' = NoOutcome
  /\ pc' = IF v.fetch THEN "awaiting" ELSE "done"
  /\ fetchCalls' = IF v.fetch THEN 1 ELSE 0
  /\ response' = v.response
  /\ UNCHANGED <<apiKey, pageVars, pendingVars, settlements>>
POST_Begin(text) ==
  /\ pc = "idle"
  /\ Begin(text, ValidateRequest(text, apiKey))

\* C11 mutant: a failed outcome is answered by calling the provider again
POST_Resume_Retry(o) ==
  /\ pc = "awaiting"
  /\ outcome' = o
  /\ IF HandleOutcome(o).status # 200 /\ fetchCalls < 2
       THEN pc' = "awaiting" /\ fetchCalls' = fetchCalls + 1 /\ response' = NoResponse
       ELSE pc' = "done" /\ fetchCalls' = fetchCalls /\ response' = HandleOutcome(o)
  /\ UNCHANGED <<apiKey, body, pageVars, pendingVars, settlements>>
\* POST from the outcome of the outbound call to its return.
POST_Resume(o) ==
  /\ pc = "awaiting"
  /\ outcome' = o
  /\ response' = HandleOutcome(o)
  /\ pc' = "done"
  /\ UNCHANGED <<apiKey, body, fetchCalls, pageVars, pendingVars, settlements>>

\* The request is over; requests share no state, the next starts afresh.
POST_End ==
  /\ pc = "done"
  /\ pc' = "idle"
  /\ body' = ""
  /\ fetchCalls' = 0
  /\ outcome' = NoOutcome
  /\ response' = NoResponse
  /\ UNCHANGED <<apiKey, pageVars, pendingVars, settlements>>

Next ==
  \/ \E text \in RequestBodies : POST_Begin(text)
  \/ \E o \in ProviderOutcomes : POST_Resume(o)
  \/ POST_End

Spec == Init /\ [][Next]_vars

(***************************************************************************)
(* The page (src/app/page.tsx): the handlers of Home and the callbacks     *)
(* they leave behind.  The setters called in one handler take effect       *)
(* together; a click reaches a control as the state renders it.            *)
(***************************************************************************)
\* C13 mutant: a rejected file also clears the result shown
handleFile_RejectClears(file) ==
  IF file.type \notin SupportedFileTypes \/ file.size > MaxFileSize
    THEN /\ error' = JSStr(MsgUnsupportedFile)
         /\ result' = JSNull
         /\ resultFor' = JSNull
         /\ UNCHANGED <<image, fileName, isLoading, copied, reads, requests, copies, timers>>
  ELSE /\ BagCardinality(reads) < MaxReads
       /\ fileName' = file.name
       /\ error' = JSNull
       /\ result' = JSNull
       /\ resultFor' = JSNull
       /\ reads' = reads (+) SetToBag({file})
       /\ UNCHANGED <<image, isLoading, copied, requests, copies, timers>>
handleFile(file) ==
  IF file.type \notin SupportedFileTypes
    THEN /\ error' = JSStr(MsgUnsupportedFile)
         /\ UNCHANGED <<image, fileName, isLoading, result, copied, pendingVars>>
  ELSE IF file.size > MaxFileSize
    THEN /\ error' = JSStr(MsgTooLarge)
         /\ UNCHANGED <<image, fileName, isLoading, result, copied, pendingVars>>
  ELSE /\ BagCardinality(reads) < MaxReads
       /\ fileName' = file.name
       /\ error' = JSNull
       /\ result' = JSNull
       /\ resultFor' = JSNull
       /\ reads' = reads (+) SetToBag({file})
       /\ UNCHANGED <<image, isLoading, copied, requests, copies, timers>>

handleDrop(files) ==
  /\ isDragging' = FALSE
  /\ IF files = <<>>
       THEN UNCHANGED <<image, fileName, isLoading, error, result, copied, pendingVars>>
       ELSE handleFile(files[1])
  /\ UNCHANGED serverVars

handleDragOver ==
  /\ isDragging' = TRUE
  /\ UNCHANGED <<serverVars, image, fileName, isLoading, error, result, copied, pendingVars>>

handleDragLeave ==
  /\ isDragging' = FALSE
  /\ UNCHANGED <<serverVars, image, fileName, isLoading, error, result, copied, pendingVars>>

handleFileInput(files) ==
  /\ IF files = <<>>
       THEN UNCHANGED <<image, fileName, isLoading, error, result, copied, pendingVars>>
       ELSE handleFile(files[1])
  /\ UNCHANGED <<serverVars, isDragging>>

\* reader.onload of the read of `file`
reader_onload(file) ==
  /\ BagIn(file, reads) /\ file.readable
  /\ image' = ReadAsDataURL(file)
  /\ reads' = reads (-) SetToBag({file})
  /\ UNCHANGED <<serverVars, fileName, isLoading, error, result, isDragging, copied,
                 requests, copies, timers, resultFor>>

\* reader.onerror of the read of `file`
reader_onerror(file) ==
  /\ BagIn(file, reads) /\ ~file.readable
  /\ error' = JSStr(MsgReadFailed)
  /\ reads' = reads (-) SetToBag({file})
  /\ UNCHANGED <<serverVars, image, fileName, isLoading, result, isDragging, copied,
                 requests, copies, timers, resultFor>>

\* C19 mutant: the analyze button is never disabled
AnalyzeDisabled_Never == FALSE
\* disabled={isLoading} of the analyze button
AnalyzeDisabled == isLoading

\* analyzeDesign up to its await.  The button is rendered for a loaded
\* image only; with no image the handler returns at once.
analyzeDesign ==
  /\ Truthy(image) => ~AnalyzeDisabled
  /\ IF ~Truthy(image) THEN UNCHANGED <<pageVars, pendingVars>>
     ELSE /\ Len(requests) < MaxInFlight
          /\ isLoading' = TRUE
          /\ error' = JSNull
          /\ requests' = Append(requests, image)
          /\ UNCHANGED <<image, fileName, result, isDragging, copied,
                         reads, copies, timers, resultFor>>
  /\ UNCHANGED serverVars

\* analyzeDesign from its await to its end, the fetch of the i-th request
\* having settled with s (the catch and the finally included)
\* C15 mutant: a failed analysis clears the result shown
Settle_ClearsOnFailure(i, a) ==
  /\ IF a.ok
       THEN result' = a.data /\ resultFor' = requests[i] /\ UNCHANGED error
       ELSE error' = JSStr(a.message) /\ result' = JSNull /\ resultFor' = JSNull
  /\ isLoading' = FALSE
  /\ requests' = RemoveAt(requests, i)
  /\ UNCHANGED <<serverVars, image, fileName, isDragging, copied, reads, copies, timers>>
Settle(i, a) ==
  /\ IF a.ok
       THEN result' = a.data /\ resultFor' = requests[i] /\ UNCHANGED error
       ELSE error' = JSStr(a.message) /\ UNCHANGED <<result, resultFor>>
  /\ isLoading' = FALSE
  /\ requests' = RemoveAt(requests, i)
  /\ UNCHANGED <<serverVars, image, fileName, isDragging, copied, reads, copies, timers>>
analyzeDesign_resume(i, s) ==
  /\ i \in 1..Len(requests)
  /\ Settle(i, AnalysisOf(s))

\* copyPrompt up to its await; the button is rendered with a result only
copyPrompt ==
  /\ Truthy(result)
  /\ IF ~Truthy(GetProp(result, "prompt")) THEN UNCHANGED copies
     ELSE copies + timers < MaxCallbacks /\ copies' = copies + 1
  /\ UNCHANGED <<serverVars, pageVars, reads, requests, timers, resultFor>>

\* copyPrompt after writeText resolved
copyPrompt_resolved ==
  /\ copies > 0
  /\ copied' = TRUE
  /\ copies' = copies - 1
  /\ timers' = timers + 1
  /\ UNCHANGED <<serverVars, image, fileName, isLoading, error, result, isDragging,
                 reads, requests, resultFor>>

\* C17 mutant: the confirmation is shown whether the write succeeded or not
copyPrompt_rejected_Copied ==
  /\ copies > 0
  /\ error' = JSStr(MsgCopyFailed)
  /\ copied' = TRUE
  /\ copies' = copies - 1
  /\ UNCHANGED <<serverVars, image, fileName, isLoading, result, isDragging,
                 reads, requests, timers, resultFor>>
\* copyPrompt after writeText rejected: the catch
copyPrompt_rejected ==
  /\ copies > 0
  /\ error' = JSStr(MsgCopyFailed)
  /\ copies' = copies - 1
  /\ UNCHANGED <<serverVars, image, fileName, isLoading, result, isDragging, copied,
                 reads, requests, timers, resultFor>>

\* the callback of setTimeout(() => setCopied(false), 2000)
copied_timeout ==
  /\ timers > 0
  /\ copied' = FALSE
  /\ timers' = timers - 1
  /\ UNCHANGED <<serverVars, image, fileName, isLoading, error, result, isDragging,
                 reads, requests, copies, resultFor>>

\* C18 mutant: the error banner is left as it is
resetUpload_KeepsError ==
  /\ Truthy(image)
  /\ image' = JSNull
  /\ fileName' = ""
  /\ result' = JSNull
  /\ resultFor' = JSNull
  /\ UNCHANGED <<serverVars, isLoading, error, isDragging, copied, reads, requests, copies, timers>>
\* resetUpload; the Clear button is rendered for a loaded image only
resetUpload ==
  /\ Truthy(image)
  /\ image' = JSNull
  /\ fileName' = ""
  /\ result' = JSNull
  /\ resultFor' = JSNull
  /\ error' = JSNull
  /\ UNCHANGED <<serverVars, isLoading, isDragging, copied, reads, requests, copies, timers>>

PageNext ==
  \/ \E files \in FileLists : handleDrop(files)
  \/ handleDragOver
  \/ handleDragLeave
  \/ \E files \in FileLists : handleFileInput(files)
  \/ \E file \in Files : reader_onload(file)
  \/ \E file \in Files : reader_onerror(file)
  \/ analyzeDesign
  \/ \E i \in 1..Len(requests) : \E s \in settlements[requests[i]] :
       analyzeDesign_resume(i, s)
  \/ copyPrompt
  \/ copyPrompt_resolved
  \/ copyPrompt_rejected
  \/ copied_timeout
  \/ resetUpload

\* the page is served by a server that holds a credential
PageStart == Init /\ apiKey \in PageKeys
PageSpec == PageStart /\ [][PageNext]_vars

(***************************************************************************)
(* What the claims speak of, read off the state.                           *)
(***************************************************************************)
\* the request's imageBase64 value (Undefined when the body has none)
ImageOf(parsed) ==
  IF parsed.ok /\ parsed.val.type = "object" THEN GetProp(parsed.val, "imageBase64")
  ELSE Undefined
RequestImage == ImageOf(JSONParse(body))

\* the body is a JSON text without an imageBase64 field
LacksField(parsed) ==
  /\ parsed.ok
  /\ \/ parsed.val.type # "object"
     \/ MemberIndexes(parsed.val.members, "imageBase64") = {}
\* the body is a JSON object with an imageBase64 field
HasImageField(parsed) ==
  /\ parsed.ok
  /\ parsed.val.type = "object"
  /\ MemberIndexes(parsed.val.members, "imageBase64") # {}

\* the environment holds a credential
KeySet == apiKey.type = "string" /\ apiKey.str # ""

\* the request was turned down by a validation step: a 400 with no outbound call
ValidationRejected ==
  pc = "done" /\ outcome.kind = "none" /\ response.status = 400 /\ fetchCalls = 0

\* img is the well-formed data URL of MIME type m with a payload
IsDataUrl(img, m) ==
  /\ img.type = "string"
  /\ \E pl \in Payloads \ {""} : img.str = DataUrl(m, pl)

\* the JSON value the reply's inner text spells (replies built around one)
InnerValue == JSONParse(outcome.inner).val
Replied == pc = "done" /\ outcome.kind = "response" /\ outcome.shape # "other"

(***************************************************************************)
(* C1.  A well-formed data URL of type png, jpeg, webp or gif passes input *)
(* validation, and one of any other MIME type is answered 400 with no      *)
(* outbound call, whether or not the credential is configured.  (image/jpg,*)
(* which the allow-list of the code and of the spec's step 3 also admits,  *)
(* is left out of "any other type" here.)  The code checks the credential  *)
(* before the allow-list: without a credential image/bmp is answered 500.  *)
(***************************************************************************)
C1Holds(img) ==
  /\ \A m \in {"image/png", "image/jpeg", "image/webp", "image/gif"} :
       IsDataUrl(img, m) => ~ValidationRejected
  /\ \A m \in OtherMimes :
       IsDataUrl(img, m) => pc = "done" /\ response.status = 400 /\ fetchCalls = 0
C1_MimeAllowList400 == pc # "idle" => C1Holds(RequestImage)

(***************************************************************************)
(* C2.  A request whose JSON body has no imageBase64 field is answered 400 *)
(* with the no-image message, and no outbound call is made.  The code      *)
(* destructures the body before the check, which throws on the body null.  *)
(***************************************************************************)
C2_NoField400 ==
  pc # "idle" /\ LacksField(JSONParse(body))
    => pc = "done" /\ response = ErrorResponse(400, MsgNoImage) /\ fetchCalls = 0

(***************************************************************************)
(* C3.  A request whose imageBase64 is present but does not start with     *)
(* data:image/ or does not match data:<mime>;base64,<payload> is answered  *)
(* 400, whatever the value's type.  The code calls startsWith on a value   *)
(* that may be no string, and checks the credential before the envelope.   *)
(***************************************************************************)
BadEnvelope(img) ==
  \/ img.type # "string"
  \/ ~StartsWith(img.str, "data:image/")
  \/ ~DataUrlMatch(img.str).ok
C3_BadEnvelope400 ==
  pc # "idle" /\ HasImageField(JSONParse(body)) /\ BadEnvelope(RequestImage)
    => pc = "done" /\ response.status = 400

(***************************************************************************)
(* C4.  Without a credential no outbound call is made and no request       *)
(* succeeds, and a request that passed the presence and prefix checks is   *)
(* answered 500 with the credential message; an outbound call is made      *)
(* only for a request that passed the presence, envelope, MIME allow-list  *)
(* and credential checks.                                                  *)
(***************************************************************************)
C4_CredentialGate ==
  /\ ~KeySet => fetchCalls = 0 /\ pc # "awaiting" /\ response.status # 200
  /\ ~KeySet /\ pc = "done" /\ RequestImage.type = "string"
       /\ StartsWith(RequestImage.str, "data:image/")
       => response = ErrorResponse(500, MsgNoKey)
  /\ fetchCalls > 0 =>
       /\ KeySet
       /\ \E m \in {"image/png", "image/jpeg", "image/jpg", "image/webp", "image/gif"} :
            IsDataUrl(RequestImage, m)
\* C4 witness: a fully valid png request met a server without credential
\* and was answered 500 with no outbound call
C4_Witness ==
  /\ pc = "done" /\ apiKey = Undefined
  /\ IsDataUrl(RequestImage, "image/png")
  /\ response = ErrorResponse(500, MsgNoKey) /\ fetchCalls = 0

(***************************************************************************)
(* C5.  A non-success provider response is answered by its status alone:   *)
(* 401 -> 401 invalid key, 429 -> 429 rate limit, 400 -> 400 invalid       *)
(* request, any other -> 500 generic failure; the three classified         *)
(* messages differ pairwise; never 200.                                    *)
(***************************************************************************)
C5_ProviderErrorMapping ==
  /\ MsgInvalidKey # MsgRateLimit /\ MsgInvalidKey # MsgBadRequest /\ MsgRateLimit # MsgBadRequest
  /\ pc = "done" /\ outcome.kind = "response"
       /\ (outcome.status < 200 \/ outcome.status > 299)
       => /\ response.status # 200
          /\ outcome.status = 401 => response = ErrorResponse(401, MsgInvalidKey)
          /\ outcome.status = 429 => response = ErrorResponse(429, MsgRateLimit)
          /\ outcome.status = 400 => response = ErrorResponse(400, MsgBadRequest)
          /\ outcome.status \notin {401, 429, 400} => response = ErrorResponse(500, MsgFailed)
\* C5 witness: the provider answered 429 and so did the endpoint
C5_Witness ==
  pc = "done" /\ outcome.kind = "response" /\ outcome.status = 429 /\ response.status = 429

(***************************************************************************)
(* C6.  A JSON object text wrapped in a leading fence (json tag or none)   *)
(* and a trailing fence yields the response the text alone yields.         *)
(***************************************************************************)
C6_FenceTransparent ==
  pc = "done" /\ outcome.shape = "fenced"
    => response = HandleOutcome(PlainReply(outcome.inner))
\* C6 witness: a reply fenced with the json tag, the fences tight against
\* the object, was answered 200 with the object's colors
C6_Witness ==
  /\ pc = "done" /\ outcome.shape = "fenced"
  /\ outcome.lead = Fence \o "json" /\ outcome.trail = Fence
  /\ response.status = 200
  /\ GetProp(response.tokens, "colors") = GetProp(JSObj(ProperTokens), "colors")

(***************************************************************************)
(* C7.  As claimed: whatever the prose around a JSON object text, the      *)
(* extraction recovers exactly the text and the response is the response   *)
(* for the text alone.  Refuted: the span runs from the FIRST "{" to the   *)
(* LAST "}" of the whole content, so a brace in the prose joins the span.  *)
(***************************************************************************)
ProseIgnored ==
  /\ CleanContent(outcome.lead \o outcome.inner \o outcome.trail) = Trim(outcome.inner)
  /\ response = HandleOutcome(PlainReply(outcome.inner))
C7_ProseIgnoredAlways == pc = "done" /\ outcome.shape = "prose" => ProseIgnored
\* C7 amended: the same, for leading prose without "{" and trailing prose
\* without "}"
C7_ProseIgnoredNoBraces ==
  pc = "done" /\ outcome.shape = "prose"
     /\ Positions(outcome.lead, "{") = {} /\ Positions(outcome.trail, "}") = {}
    => ProseIgnored
\* C7 witness: an object between two sentences was answered 200
C7_Witness ==
  /\ pc = "done" /\ outcome.shape = "prose"
  /\ outcome.lead = "Here is the JSON: " /\ outcome.trail = " Hope this helps!"
  /\ response.status = 200

(***************************************************************************)
(* C8.  200 only if the parsed reply holds a tokens object and a prompt    *)
(* string; a reply lacking either (key missing or value of another type)   *)
(* is answered 500 missing-required-fields.  The code tests truthiness     *)
(* only: a truthy tokens or prompt of any type is let through.             *)
(***************************************************************************)
C8Holds(v) ==
  LET wellTyped == GetProp(v, "tokens").type = "object" /\ GetProp(v, "prompt").type = "string"
  IN /\ response.status = 200 => wellTyped
     /\ ~wellTyped => response = ErrorResponse(500, MsgMissing)
C8_RequiredFieldsTyped == Replied /\ outcome.shape = "plain" => C8Holds(InnerValue)

(***************************************************************************)
(* C9.  In a 200 response each of the six token fields is the documented   *)
(* default when the reply's field is absent or falsy and the reply's value *)
(* otherwise, and prompt is the reply's prompt.                            *)
(***************************************************************************)
DocumentedDefault(f) ==
  CASE f = "colors" -> JSArr(<<>>)
    [] f = "typography" ->
         JSObj(<< Member("headings", JSStr("Sans-serif, semi-bold")),
                  Member("body", JSStr("Sans-serif, regular")),
                  Member("weights", JSArr(<<JSStr("400"), JSStr("600")>>)) >>)
    [] f = "spacing" ->
         JSArr(<<JSStr("4px"), JSStr("8px"), JSStr("16px"), JSStr("24px"), JSStr("32px")>>)
    [] f = "animations" -> JSArr(<<>>)
    [] f = "elevation" -> JSArr(<<>>)
    [] f = "radius" -> JSArr(<<JSStr("4px"), JSStr("8px"), JSStr("12px")>>)
Falsy == {Undefined, JSNull, JSNum(0), JSStr(""), JSBool(FALSE)}
C9Holds(v) ==
  /\ \A f \in {"colors", "typography", "spacing", "animations", "elevation", "radius"} :
       GetProp(response.tokens, f) =
         IF GetProp(GetProp(v, "tokens"), f) \in Falsy THEN DocumentedDefault(f)
         ELSE GetProp(GetProp(v, "tokens"), f)
  /\ response.prompt = GetProp(v, "prompt")
C9_FieldDefaults == Replied /\ response.status = 200 => C9Holds(InnerValue)
\* C9 witness: a reply without spacing, with a falsy radius and with its own
\* colors was answered 200 with the default spacing and radius and its colors
C9_Witness ==
  /\ Replied /\ response.status = 200
  /\ GetProp(GetProp(InnerValue, "tokens"), "spacing") = Undefined
  /\ GetProp(GetProp(InnerValue, "tokens"), "radius") = JSNum(0)
  /\ GetProp(response.tokens, "spacing") = DocumentedDefault("spacing")
  /\ GetProp(response.tokens, "radius") = DocumentedDefault("radius")
  /\ GetProp(response.tokens, "colors") = GetProp(JSObj(ProperTokens), "colors")

(***************************************************************************)
(* C10.  Every 200 response carries all six token fields, each of its      *)
(* type: five sequences and a typography record of two strings and a       *)
(* sequence.  The code passes any truthy field value through as it is.     *)
(***************************************************************************)
IsTypography(v) ==
  /\ v.type = "object"
  /\ GetProp(v, "headings").type = "string"
  /\ GetProp(v, "body").type = "string"
  /\ GetProp(v, "weights").type = "array"
FullyFormed(tokens) ==
  /\ tokens.type = "object"
  /\ \A f \in {"colors", "spacing", "animations", "elevation", "radius"} :
       GetProp(tokens, f).type = "array"
  /\ IsTypography(GetProp(tokens, "typography"))
C10_ResultFullyFormed == pc = "done" /\ response.status = 200 => FullyFormed(response.tokens)

(***************************************************************************)
(* C11.  Per request at most one outbound call is made and nothing is      *)
(* retried: the call is made on the way from the request's arrival to the  *)
(* await, a request that has its response (an error response included)     *)
(* takes no further step but its end, and the response of a request is     *)
(* never replaced.                                                         *)
(***************************************************************************)
C11_NoRetry ==
  [][ /\ fetchCalls' <= 1
      /\ fetchCalls' > fetchCalls => pc = "idle" /\ pc' = "awaiting"
      /\ pc = "done" => pc' = "idle" /\ fetchCalls' = 0 /\ response' = NoResponse
      /\ pc = "awaiting" => pc' = "done" /\ fetchCalls' = fetchCalls ]_vars
\* C11 witness: the provider answered 503 to the one call made and the
\* request ended with the 500 of the generic failure
C11_Witness ==
  /\ pc = "done" /\ fetchCalls = 1 /\ outcome.kind = "response" /\ outcome.status = 503
  /\ response = ErrorResponse(500, MsgFailed)

(***************************************************************************)
(* C12.  A request that has ended has one response, its status one of 200, *)
(* 400, 401, 429, 500; a response of another status than 200 is an error   *)
(* message and nothing else; a request body that is no JSON, an outbound   *)
(* call that throws and a provider body that is no JSON are answered 500.  *)
(* Before its end a request has no response.                               *)
(***************************************************************************)
ErrorMessages ==
  { MsgNoImage, MsgInvalidFormat, MsgNoKey, MsgInvalidData, MsgUnsupported,
    MsgInvalidKey, MsgRateLimit, MsgBadRequest, MsgFailed, MsgNoAnalysis,
    MsgParse, MsgMissing, MsgUnexpected }
C12_OneJsonResponse ==
  /\ pc # "done" => response = NoResponse
  /\ pc = "done" =>
       /\ response.status \in {200, 400, 401, 429, 500}
       /\ response.status # 200 =>
            /\ response.error \in ErrorMessages /\ response.error # ""
            /\ response.tokens = Undefined /\ response.prompt = Undefined
       /\ ~JSONParse(body).ok => response.status = 500
       /\ outcome.kind = "throw" => response.status = 500
       /\ outcome.kind = "response" /\ StatusOk(outcome.status) /\ ~outcome.json.ok
            => response.status = 500
\* C12 witness: the outbound call threw and the request was answered 500
\* with the message of the outer catch
C12_Witness ==
  pc = "done" /\ outcome.kind = "throw" /\ response = ErrorResponse(500, MsgUnexpected)

(***************************************************************************)
(* The page's claims.  A step of the page is told by the handler that      *)
(* makes it; a request is sent by the step that lengthens `requests` and   *)
(* settled by the step that shortens it.                                   *)
(***************************************************************************)
\* the file is turned down: its declared type is none of png, jpeg, webp,
\* gif, or it is larger than 50 MiB
TurnedDown(f) ==
  \/ f.type \notin {"image/png", "image/jpeg", "image/webp", "image/gif"}
  \/ f.size > 52428800
\* the file enters through the drop zone, through the file input
Dropped(f) == handleDrop(<<f>>)
Picked(f) == handleFileInput(<<f>>)
\* the response s is a success carrying a JSON body
Succeeded(s) == s.kind = "response" /\ s.status >= 200 /\ s.status <= 299 /\ s.json.ok

(***************************************************************************)
(* C13.  A file turned down, dropped or picked, sets the error and changes *)
(* nothing else: image, fileName, result, isLoading and copied keep their  *)
(* values and no read is started.                                          *)
(***************************************************************************)
C13_RejectOnlySetsError ==
  [][ \A f \in Files : TurnedDown(f) /\ (Dropped(f) \/ Picked(f))
        => /\ error'.type = "string" /\ error'.str # ""
           /\ UNCHANGED <<image, fileName, result, isLoading, copied, reads>> ]_vars
\* C13 witness: a file too large was turned down while an image and its
\* result were shown, and both are still there
C13_Witness ==
  error = JSStr(MsgTooLarge) /\ Truthy(image) /\ Truthy(result) /\ reads = EmptyBag

(***************************************************************************)
(* C14.  As claimed: accepting a file whose read then fails leaves image,  *)
(* fileName and result as they were before the file was accepted, and the  *)
(* failure sets the error.  Refuted: handleFile sets the file's name and   *)
(* clears the result before the read has ended.                            *)
(***************************************************************************)
C14_FailedReadLeavesState ==
  [][ \A f \in Files : ~TurnedDown(f) /\ ~f.readable
        => /\ Dropped(f) \/ Picked(f) \/ reader_onerror(f)
                => UNCHANGED <<image, fileName, result>>
           /\ reader_onerror(f) => error' = JSStr(MsgReadFailed) ]_vars

(***************************************************************************)
(* C15.  analyzeDesign with no image changes nothing and sends nothing;    *)
(* with an image it turns isLoading on and sends one request, for that     *)
(* image; a success response makes the result the response's body, a       *)
(* failure sets the error and leaves the result as it was.                 *)
(***************************************************************************)
C15_AnalyzeSteps ==
  [][ /\ ~Truthy(image) => Len(requests') <= Len(requests)
      /\ ~Truthy(image) /\ analyzeDesign => UNCHANGED vars
      /\ Truthy(image) /\ analyzeDesign =>
           /\ isLoading' /\ result' = result
           /\ Len(requests') = Len(requests) + 1
           /\ requests'[Len(requests')] = image
      /\ \A i \in 1..Len(requests) : \A s \in settlements[requests[i]] :
           analyzeDesign_resume(i, s) =>
             IF Succeeded(s) THEN result' = s.json.val
             ELSE error'.type = "string" /\ result' = result ]_vars
\* C15 witness: an analysis failed after an earlier one had succeeded: the
\* error is the one of the failure and the earlier result is still shown
C15_Witness ==
  /\ error = JSStr(BrowserMessages.fetch) /\ ~isLoading /\ requests = <<>>
  /\ Truthy(result) /\ GetProp(result, "prompt") = JSStr("Build it")

(***************************************************************************)
(* C16.  A response that is no success ends the analysis with isLoading    *)
(* off and the error set to the body's `error` when it has one, to the     *)
(* fallback message otherwise, and the analyze button is enabled again.    *)
(* A provider 401 reaches the page as the endpoint's 401 with its          *)
(* invalid-key message.                                                    *)
(***************************************************************************)
C16_FailureSurfaced ==
  [][ \A i \in 1..Len(requests) :
        /\ [kind |-> "response", status |-> 401,
            json |-> Json(JSObj(<<Member("error",
               JSStr("Invalid API key. Please check your PERPLEXITY_API_KEY."))>>))]
             \in settlements[requests[i]]
        /\ \A s \in settlements[requests[i]] :
             analyzeDesign_resume(i, s) /\ s.kind = "response" /\ ~Succeeded(s)
               /\ s.json.ok /\ s.json.val.type = "object"
               => /\ ~isLoading'
                  /\ Truthy(image') => ~AnalyzeDisabled'
                  /\ error' = IF GetProp(s.json.val, "error").type = "string"
                                   /\ GetProp(s.json.val, "error").str # ""
                                THEN GetProp(s.json.val, "error")
                                ELSE JSStr("Failed to analyze design") ]_vars
\* C16 witness: the banner shows the endpoint's message for a provider 401
C16_Witness ==
  /\ error = JSStr("Invalid API key. Please check your PERPLEXITY_API_KEY.")
  /\ ~isLoading /\ requests = <<>>

(***************************************************************************)
(* C17.  A clipboard write that fails sets the error and neither shows the *)
(* confirmation nor starts its timer; the confirmation is turned on by a   *)
(* write that succeeded only, and turned off by the timer only.            *)
(***************************************************************************)
C17_CopyFailure ==
  [][ /\ copyPrompt_rejected =>
           error' = JSStr("Failed to copy to clipboard") /\ copied' = copied /\ timers' = timers
      /\ copied' /\ ~copied => copyPrompt_resolved
      /\ copied /\ ~copied' => copied_timeout ]_vars
\* C17 witness: a write failed; the banner says so, no confirmation is
\* shown and no timer waits
C17_Witness ==
  error = JSStr(MsgCopyFailed) /\ ~copied /\ timers = 0 /\ copies = 0 /\ Truthy(result)

(***************************************************************************)
(* C18.  Right after resetUpload the image is null, the file name empty,   *)
(* the result null and the error null, whatever the state it was called    *)
(* in (the Clear button is there in every state with an image).            *)
(***************************************************************************)
C18_ResetClears ==
  [][ resetUpload =>
        image' = JSNull /\ fileName' = "" /\ result' = JSNull /\ error' = JSNull ]_vars
\* C18 witness: the page was reset while a request was in flight
C18_Witness ==
  /\ image = JSNull /\ fileName = "" /\ result = JSNull /\ error = JSNull
  /\ isLoading /\ Len(requests) = 1 /\ reads = EmptyBag

(***************************************************************************)
(* C19.  At most one analysis request is in flight, isLoading is on        *)
(* exactly while one is, and the analyze button is disabled while one is.  *)
(***************************************************************************)
C19_OneInFlight ==
  /\ Len(requests) <= 1
  /\ isLoading <=> Len(requests) = 1
  /\ Len(requests) > 0 => AnalyzeDisabled
\* C19 witness: a request is in flight for an image that has been replaced
\* by another since
C19_Witness ==
  /\ Len(requests) = 1 /\ isLoading /\ Truthy(image)
  /\ requests[1] # image

(***************************************************************************)
(* C20.  As claimed: a result shown belongs to the image loaded: an image  *)
(* is loaded and the result answers the request sent for it.  Refuted: the *)
(* response of a request in flight is shown whatever became of the image   *)
(* since (reset, or replaced by another file).                             *)
(***************************************************************************)
C20_ResultOfLoadedImage ==
  Truthy(result) => Truthy(image) /\ resultFor = image

====
